---- MODULE Spec2Model ----
(***************************************************************************)
(* State-machine model of the ThreadNews client (src/unnamed/part_000):    *)
(* the NewsFeed component (reset effect, load effect, Load more button),   *)
(* fetchGNews / mapGNews, the ThreadTabs selector and the VoteBar widget.  *)
(*                                                                         *)
(* React runs on one thread.  An event handler, the render it causes and   *)
(* the effects of that render (with the re-render the effects' own state   *)
(* updates cause) form one action; the only suspension point is the await  *)
(* inside load(), so a pending load is an element of the bag `loads` (the   *)
(* network may answer pending requests in any order) and its continuation  *)
(* is the action LoadSettles.                                              *)
(*                                                                         *)
(* Strings built by template literals are modelled as sequences of string  *)
(* chunks; the value null of `error` is the empty sequence (no message the *)
(* code produces is empty).                                                *)
(***************************************************************************)
EXTENDS Integers, Sequences, FiniteSets, Bags, TLC

(* ------------------------------ constants ------------------------------ *)

PAGE_SIZE == 10

GNEWS_TOPICS ==
    <<"world", "nation", "business", "technology",
      "entertainment", "sports", "science", "health">>

(* ------------------------------- bounds -------------------------------- *)

\* how many of the topics of GNEWS_TOPICS have a tab in the model
NumTopics == 2
\* the page counter is not advanced past this value
MaxPage == 3
\* at most this many requests are pending at once
MaxInFlight == 2
\* number of NewsCards (one VoteBar each) in the VoteBar specification
NumCards == 3
\* initialVotes of a VoteBar ranges over 0..MaxInitialVotes
MaxInitialVotes == 1
\* the theme is toggled at most this many times
MaxToggles == 8

(* ------------------------------ variables ------------------------------ *)

VARIABLES
    thread,        \* App: useState<string | null>(null)
    items,         \* NewsFeed: accumulated NewsItem[]
    page,          \* NewsFeed: page counter
    loading,       \* NewsFeed: loading flag
    error,         \* NewsFeed: error message, <<>> for null
    hasMore,       \* NewsFeed: hasMore flag
    loads,         \* bag of the pending load() calls
    before,        \* history: the accumulated list when load() was last called
    applied,       \* history: <<page, number of articles the source returned>>
                   \* of the loads applied in this feed session
    ev,            \* history: the event that produced the current state
    initialVotes,  \* VoteBar props, one per card
    votes,         \* VoteBar: votes, one per card
    dir,           \* VoteBar: dir, one per card
    env,           \* process.env: the two variables GNEWS_TOKEN is read from
    mapIn,         \* arguments of one call of mapGNews
    mapOut,        \* outcome of that call
    theme,         \* ThemeProvider: theme state
    storage,       \* localStorage: the value under the key "theme", NULL if none
    darkClass,     \* document.documentElement has the class "dark"
    themePhase,    \* ThemeProvider: "rendered", "mounted" (effects ran), "ready"
    pendingTheme,  \* ThemeProvider: argument of the scheduled setTheme, NULL if none
    stored0,       \* history: what the storage slot held at startup
    themeLog       \* history: theme before each toggle

feedVars == <<thread, items, page, loading, error, hasMore, loads, before, applied, ev>>
voteVars == <<initialVotes, votes, dir>>
mapVars == <<mapIn, mapOut>>
themeVars == <<theme, storage, darkClass, themePhase, pendingTheme, stored0, themeLog>>
vars == <<thread, items, page, loading, error, hasMore, loads, before, applied, ev,
          initialVotes, votes, dir, env, mapIn, mapOut,
          theme, storage, darkClass, themePhase, pendingTheme, stored0, themeLog>>

(* --------------------------- values and inputs ------------------------- *)

\* the JavaScript value null of `thread` and of `dir`
NULL == "null"
\* a property that is absent from a record (undefined)
ABSENT == "undefined"
\* null of `error`
NoError == <<>>

\* JavaScript truthiness of a string-or-undefined value
Truthy(s) == s # ABSENT /\ s # NULL /\ s # ""

\* the tabs rendered by ThreadTabs
Tabs == {"all"} \cup {GNEWS_TOPICS[i] : i \in 1..NumTopics}
\* the argument of setThread in the onClick of a tab
TabThread(t) == IF t = "all" THEN NULL ELSE t

\* new URL(u).hostname for the URLs of the model; any other string does not parse
UrlHost == ("https://example.com/a" :> "example.com")
UrlParses(u) == u \in DOMAIN UrlHost

(* ------------------------------- mapGNews ------------------------------ *)

\* `new URL(url)` is evaluated, and throws, exactly in this case
MapThrows(a) ==
    /\ ~Truthy(a.sourceUrl)
    /\ Truthy(a.url)
    /\ a.url # "#"
    /\ ~UrlParses(a.url)

\* Time is counted in minutes: 36e5 ms are MinutesPerHour minutes.
MinutesPerHour == 60

\* Math.round(x / d) for integers x and d > 0: halves are rounded up
JsRound(x, d) == (2 * x + d) \div (2 * d)

\* Math.max(a, b) of two numbers
JsMax(a, b) == IF a >= b THEN a ELSE b

\* `${ageHours}`: publishedAt is absent (the default is the current time), a
\* string that Date cannot parse (getTime() is NaN, and so are round and max),
\* or a timestamp that lies a.elapsed minutes before Date.now()
AgeHours(a) ==
    IF a.publishedAt = "invalid" THEN "NaN"
    ELSE ToString(JsMax(1, JsRound(IF a.publishedAt = ABSENT THEN 0 ELSE a.elapsed,
                                   MinutesPerHour)))

mapGNews(a, idx, topic) ==
    LET title  == IF a.title = ABSENT THEN "Untitled" ELSE a.title
        url    == IF a.url = ABSENT THEN "#" ELSE a.url
        image  == IF a.image = ABSENT THEN NULL ELSE a.image
        domain == IF Truthy(a.sourceUrl) THEN a.sourceUrl
                  ELSE IF Truthy(url) /\ url # "#" THEN UrlHost[url]
                  ELSE ""
        favicon == IF domain # ""
                   THEN <<"https://www.google.com/s2/favicons?domain=", domain>>
                   ELSE <<>>
    IN  [id        |-> <<topic, idx>>,
         title     |-> title,
         url       |-> url,
         favicon   |-> favicon,
         thumbnail |-> image,
         comments  |-> 0,
         votes     |-> 0,
         age       |-> <<AgeHours(a), "h ago">>,
         thread    |-> topic]

(* ------------------------------ fetchGNews ----------------------------- *)

\* raw articles the source may return at position i of a page
GoodArticle(i) ==
    [title     |-> ToString(i),
     url       |-> IF i % 4 = 0 THEN ABSENT
                   ELSE IF i % 4 = 3 THEN "#"
                   ELSE "https://example.com/a",
     image     |-> IF i % 2 = 0 THEN ABSENT ELSE "https://example.com/i.png",
     sourceUrl |-> IF i % 4 = 1 THEN "https://source.example" ELSE ABSENT,
     publishedAt |-> IF i % 3 = 0 THEN ABSENT ELSE "iso",
     elapsed   |-> 45 * i]

\* url present but not parseable, no source.url
MalformedArticle(i) ==
    [title     |-> ToString(i),
     url       |-> "not a url",
     image     |-> ABSENT,
     sourceUrl |-> ABSENT,
     publishedAt |-> "iso",
     elapsed   |-> 45 * i]

Body(n, bad) ==
    [i \in 1..n |-> IF i = bad THEN MalformedArticle(i) ELSE GoodArticle(i)]

\* the numbers of articles a page of the source may hold in the model: none,
\* one, the 4 of the scenario, one less than a full page, a full page
PageLengths == {0, 1, 4, PAGE_SIZE - 1, PAGE_SIZE}

\* what the network may answer to one request
Responses ==
    { [rejected |-> FALSE, ok |-> TRUE, status |-> 200,
       hasArticles |-> TRUE, articles |-> Body(n, 0)] : n \in PageLengths }
    \cup
    { [rejected |-> FALSE, ok |-> TRUE, status |-> 200,
       hasArticles |-> TRUE, articles |-> Body(b[1], b[2])] :
          b \in {<<1, 1>>, <<PAGE_SIZE, 1>>, <<PAGE_SIZE, PAGE_SIZE>>} }
    \cup
    { [rejected |-> FALSE, ok |-> TRUE, status |-> 200,
       hasArticles |-> FALSE, articles |-> <<>>] }
    \cup
    { [rejected |-> FALSE, ok |-> FALSE, status |-> s,
       hasArticles |-> FALSE, articles |-> <<>>] : s \in {404, 500} }
    \cup
    { [rejected |-> TRUE, ok |-> FALSE, status |-> 0,
       hasArticles |-> FALSE, articles |-> <<>>] }

\* values an environment variable may have
EnvValues == {ABSENT, "", "token-from-env"}

\* env.NEXT_PUBLIC_GNEWS_TOKEN || env.GNEWS_TOKEN || "398e..."
GNEWS_TOKEN ==
    IF Truthy(env.NEXT_PUBLIC_GNEWS_TOKEN) THEN env.NEXT_PUBLIC_GNEWS_TOKEN
    ELSE IF Truthy(env.GNEWS_TOKEN) THEN env.GNEWS_TOKEN
    ELSE "398eff08263b1e6180096acb4ab68a01"

\* variant: the message does not carry the status
NetworkMessageNoStatus(status) == <<"Network error">>

\* the Error message of a response that is not ok
NetworkMessage(status) == <<"Network ", ToString(status)>>

\* variant: the index restarts at 0 on every page
ItemIndexNoOffset(pg, idx) == idx

\* the index fetchGNews passes to mapGNews for element idx (zero-based) of page pg
ItemIndex(pg, idx) == (pg - 1) * PAGE_SIZE + idx

\* the settled value of fetchGNews({page, thread}) when the network answers resp:
\* threw = TRUE with the Error's message, or threw = FALSE with the NewsItem[];
\* requested tells whether fetch() was called
fetchGNews(pg, thr, resp) ==
    LET arts  == IF resp.hasArticles THEN resp.articles ELSE <<>>
        topic == IF thr = NULL THEN "all" ELSE thr
    IN  IF ~Truthy(GNEWS_TOKEN)
        THEN [threw |-> TRUE, message |-> <<"Missing GNEWS_TOKEN env var">>,
              data |-> <<>>, requested |-> FALSE]
        ELSE IF resp.rejected
        THEN [threw |-> TRUE, message |-> <<"Failed to fetch">>,
              data |-> <<>>, requested |-> TRUE]
        ELSE IF ~resp.ok
        THEN [threw |-> TRUE, message |-> NetworkMessage(resp.status),
              data |-> <<>>, requested |-> TRUE]
        ELSE IF \E i \in 1..Len(arts) : MapThrows(arts[i])
        THEN [threw |-> TRUE, message |-> <<"Invalid URL">>,
              data |-> <<>>, requested |-> TRUE]
        ELSE [threw |-> FALSE, message |-> <<>>, requested |-> TRUE,
              data |-> [i \in 1..Len(arts) |->
                          mapGNews(arts[i], ItemIndex(pg, i - 1), topic)]]

(* ------------------------------- NewsFeed ------------------------------ *)

\* cleanup of the load effect: the closure's `cancelled` becomes true
Cancel(l) == [l EXCEPT !.cancelled = TRUE]

\* variant: the effect returns no cleanup
CleanupNone(ls) == ls

Cleanup(ls) == BagOfAll(Cancel, ls)

\* a call of load() for the effect run with dependencies (pg, thr)
NewLoad(pg, thr, cancelled) ==
    [page |-> pg, thread |-> thr, cancelled |-> cancelled]

\* history: user events carry no outcome
UserEvent(op) ==
    [op |-> op, cancelled |-> FALSE, threw |-> FALSE,
     status |-> 0, bad |-> FALSE, requested |-> FALSE]

\* an article whose url is present but unparseable and that has no source.url
UnparseableNoSource(a) == a.url = "not a url" /\ a.sourceUrl = ABSENT

\* the pending calls once call l has settled
Remove(ls, l) == ls (-) SetToBag({l})

\* variant: the cancelled flag is never honoured
SupersededNever(l) == FALSE

\* `if (cancelled) return` and the `!cancelled` guards of catch and finally
Superseded(l) == l.cancelled

\* variant: the new page is put in front of the list
PrependData(prev, data) == data \o prev

\* setItems((prev) => [...prev, ...data])
AppendData(prev, data) == prev \o data

\* variant: any non-empty page promises more
HasMoreNonEmpty(data) == Len(data) > 0

\* setHasMore(data.length === PAGE_SIZE)
HasMoreAfter(data) == Len(data) = PAGE_SIZE

\* variant: the reset effect leaves page alone
ResetPageKept == page

\* the value the reset effect gives to page
ResetPage == 1

\* variant: finally does not clear the flag
LoadingWhenSettledKept == loading

\* finally: setLoading(false)
LoadingWhenSettled == FALSE

\* the state of the ThreadNews feed after the first render and its effects
InitFeed ==
    /\ thread = NULL
    /\ items = <<>>
    /\ page = 1
    /\ loading = TRUE
    /\ error = NoError
    /\ hasMore = TRUE
    /\ loads = SetToBag({NewLoad(1, NULL, FALSE)})
    /\ before = <<>>
    /\ applied = <<>>
    /\ ev = UserEvent("mount")

\* a tab is clicked: setThread(t), then the reset effect and the load effect
SetThread(tab) ==
    LET t == TabThread(tab)
        \* first effect pass: the load effect still sees the old page
        stale == IF page # ResetPage
                 THEN SetToBag({NewLoad(page, t, TRUE)})
                 ELSE EmptyBag
    IN  /\ t # thread
        /\ BagCardinality(loads) + BagCardinality(stale) + 1 <= MaxInFlight
        /\ thread' = t
        /\ items' = <<>>
        /\ page' = ResetPage
        /\ hasMore' = TRUE
        /\ loading' = TRUE
        /\ error' = NoError
        /\ loads' = Cleanup(loads) (+) stale
                       (+) SetToBag({NewLoad(ResetPage, t, FALSE)})
        /\ before' = <<>>
        /\ applied' = <<>>
        /\ ev' = UserEvent("setThread")
        /\ UNCHANGED <<env, voteVars, mapVars, themeVars>>

\* variant: the button is rendered whenever no load is running
LoadMoreShownNoHasMore == ~loading

\* the Load more button is rendered
LoadMoreShown == ~loading /\ hasMore

\* onClick of Load more: setPage((p) => p + 1), then the load effect
LoadMore ==
    /\ LoadMoreShown
    /\ page < MaxPage
    /\ BagCardinality(loads) + 1 <= MaxInFlight
    /\ page' = page + 1
    /\ loading' = TRUE
    /\ error' = NoError
    /\ loads' = Cleanup(loads) (+) SetToBag({NewLoad(page + 1, thread, FALSE)})
    /\ before' = items
    /\ ev' = UserEvent("loadMore")
    /\ UNCHANGED <<thread, items, hasMore, applied>>
    /\ UNCHANGED <<env, voteVars, mapVars, themeVars>>

\* the await of the pending call l settles with the network's answer resp
LoadSettles(l, resp) ==
    LET r == fetchGNews(l.page, l.thread, resp)
    IN  /\ loads' = Remove(loads, l)
        /\ ev' = [op |-> "settle", cancelled |-> l.cancelled,
                  threw |-> r.threw,
                  status |-> resp.status,
                  requested |-> r.requested,
                  bad |-> \E k \in 1..Len(resp.articles) :
                             UnparseableNoSource(resp.articles[k])]
        /\ IF Superseded(l)
           THEN UNCHANGED <<items, hasMore, error, loading, applied>>
           ELSE IF r.threw
           THEN /\ error' = r.message
                /\ loading' = LoadingWhenSettled
                /\ UNCHANGED <<items, hasMore, applied>>
           ELSE /\ items' = AppendData(items, r.data)
                /\ hasMore' = HasMoreAfter(r.data)
                /\ loading' = LoadingWhenSettled
                /\ applied' = Append(applied, <<l.page, Len(resp.articles)>>)
                /\ UNCHANGED error
        /\ UNCHANGED <<thread, page, before>>
        /\ UNCHANGED <<env, voteVars, mapVars, themeVars>>

(* -------------------------------- VoteBar ------------------------------ *)

Cards == 1..NumCards

InitVote ==
    /\ initialVotes \in [Cards -> 0..MaxInitialVotes]
    /\ votes = initialVotes
    /\ dir = [c \in Cards |-> NULL]

\* variant: switching from up to down counts as a fresh down-vote
DownDeltaNoSwitch(d) == IF d = "down" THEN 1 ELSE -1

\* variant: switching from down to up counts as a fresh up-vote
UpDeltaNoSwitch(d) == IF d = "up" THEN -1 ELSE 1

\* the increments of setVotes in up and in down
UpDelta(d) == IF d = "up" THEN -1 ELSE IF d = "down" THEN 2 ELSE 1
DownDelta(d) == IF d = "down" THEN 1 ELSE IF d = "up" THEN -2 ELSE -1
\* the updaters of setDir in up and in down
UpDir(d) == IF d = "up" THEN NULL ELSE "up"
DownDir(d) == IF d = "down" THEN NULL ELSE "down"

up(c) ==
    /\ votes' = [votes EXCEPT ![c] = @ + UpDelta(dir[c])]
    /\ dir' = [dir EXCEPT ![c] = UpDir(@)]
    /\ UNCHANGED initialVotes
    /\ UNCHANGED <<feedVars, env, mapVars, themeVars>>

down(c) ==
    /\ votes' = [votes EXCEPT ![c] = @ + DownDelta(dir[c])]
    /\ dir' = [dir EXCEPT ![c] = DownDir(@)]
    /\ UNCHANGED initialVotes
    /\ UNCHANGED <<feedVars, env, mapVars, themeVars>>

(* ------------------------------ mapGNews call -------------------------- *)

\* minutes between publishedAt and Date.now(); negative: a future timestamp
Elapsed == {-90, -31, -30, 0, 29, 30, 89, 90, 150}

RawArticles ==
    { [title |-> t, url |-> u, image |-> g, sourceUrl |-> su,
       publishedAt |-> pe[1], elapsed |-> pe[2]] :
        t \in {ABSENT, "A title"},
        u \in {ABSENT, "#", "", "https://example.com/a", "not a url"},
        g \in {ABSENT, "https://example.com/i.png"},
        su \in {ABSENT, "", "https://source.example"},
        pe \in {<<ABSENT, 0>>, <<"invalid", 0>>} \cup {<<"iso", e>> : e \in Elapsed} }

MapInputs ==
    { [a |-> a, idx |-> i, topic |-> tp] :
        a \in RawArticles, i \in {0, PAGE_SIZE + 1}, tp \in {"all", "world"} }

\* the call has not been made
NotCalled == [state |-> "idle", item |-> <<>>]

InitMap ==
    /\ mapIn \in MapInputs
    /\ mapOut = NotCalled

\* mapGNews(a, idx, topic) returns an item or throws
Map ==
    /\ mapOut.state = "idle"
    /\ mapOut' = IF MapThrows(mapIn.a)
                 THEN [state |-> "threw", item |-> <<>>]
                 ELSE [state |-> "returned",
                       item |-> <<mapGNews(mapIn.a, mapIn.idx, mapIn.topic)>>]
    /\ UNCHANGED <<mapIn, feedVars, env, voteVars, themeVars>>

(* ----------------------------- ThemeProvider --------------------------- *)

\* what localStorage.getItem("theme") may return when the page starts
StoredValues ==
    {NULL, "dark", "light", "", "Dark", "LIGHT", " dark", "auto", "true", "0"}

\* variant: any stored string is adopted
StoredValidAny(stored) == stored # NULL

\* stored === "dark" || stored === "light"
StoredValid(stored) == stored = "dark" \/ stored = "light"

\* variant: the toggle always selects dark
ToggleValueStuck(t) == "dark"

\* theme === "dark" ? "light" : "dark"
ToggleValue(t) == IF t = "dark" THEN "light" ELSE "dark"

\* the first render of ThemeProvider: useState("light"), no effect has run
InitThemeProvider ==
    /\ theme = "light"
    /\ storage \in StoredValues
    /\ darkClass \in BOOLEAN
    /\ themePhase = "rendered"
    /\ pendingTheme = NULL
    /\ stored0 = storage
    /\ themeLog = <<>>

\* the effects of the first render, in order: the init effect reads the slot
\* and schedules setTheme(stored); the persist effect runs with the rendered
\* theme ("light")
MountEffects ==
    /\ themePhase = "rendered"
    /\ pendingTheme' = IF StoredValid(storage) /\ storage # theme
                       THEN storage ELSE NULL
    /\ darkClass' = (theme = "dark")
    /\ storage' = theme
    /\ themePhase' = "mounted"
    /\ UNCHANGED <<theme, stored0, themeLog>>
    /\ UNCHANGED <<feedVars, env, voteVars, mapVars>>

\* the render for the scheduled setTheme, and the persist effect when the
\* theme has changed
Rerender ==
    /\ themePhase = "mounted"
    /\ IF pendingTheme # NULL
       THEN /\ theme' = pendingTheme
            /\ darkClass' = (pendingTheme = "dark")
            /\ storage' = pendingTheme
       ELSE UNCHANGED <<theme, darkClass, storage>>
    /\ pendingTheme' = NULL
    /\ themePhase' = "ready"
    /\ UNCHANGED <<stored0, themeLog>>
    /\ UNCHANGED <<feedVars, env, voteVars, mapVars>>

\* onClick of the NavBar button: setTheme(...), the render and the persist effect
Toggle ==
    /\ themePhase = "ready"
    /\ Len(themeLog) < MaxToggles
    /\ theme' = ToggleValue(theme)
    /\ darkClass' = (ToggleValue(theme) = "dark")
    /\ storage' = ToggleValue(theme)
    /\ themeLog' = Append(themeLog, theme)
    /\ UNCHANGED <<themePhase, pendingTheme, stored0>>
    /\ UNCHANGED <<feedVars, env, voteVars, mapVars>>

(* ---------------------------- specifications --------------------------- *)

\* neither environment variable is set
NoEnv == env = [NEXT_PUBLIC_GNEWS_TOKEN |-> ABSENT, GNEWS_TOKEN |-> ABSENT]

\* the VoteBars as rendered for freshly mapped items
IdleVote ==
    /\ initialVotes = [c \in Cards |-> 0]
    /\ votes = initialVotes
    /\ dir = [c \in Cards |-> NULL]

\* no call of mapGNews under observation
IdleMap ==
    /\ mapIn = [a |-> GoodArticle(1), idx |-> 0, topic |-> "all"]
    /\ mapOut = NotCalled

\* the theme once startup has settled on light
RestTheme ==
    /\ theme = "light"
    /\ storage = "light"
    /\ darkClass = FALSE
    /\ themePhase = "ready"
    /\ pendingTheme = NULL
    /\ stored0 = "light"
    /\ themeLog = <<>>

\* the feed, with the rest of the page left alone
Init ==
    /\ InitFeed
    /\ NoEnv
    /\ IdleVote
    /\ IdleMap
    /\ RestTheme

Next ==
    \/ \E tab \in Tabs : SetThread(tab)
    \/ LoadMore
    \/ \E l \in BagToSet(loads) : \E resp \in Responses : LoadSettles(l, resp)

Spec == Init /\ [][Next]_vars

\* the continuation of some pending load() runs
Settle == \E l \in BagToSet(loads) : \E resp \in Responses : LoadSettles(l, resp)

\* a click of the user on a tab or on Load more
UserActs == (\E tab \in Tabs : SetThread(tab)) \/ LoadMore

\* the feed when every request is answered in the end: the event loop runs
\* the continuation of a load() once its fetch has settled
SpecLive == Init /\ [][Next]_vars /\ WF_vars(Settle)

\* the feed under every setting of the two environment variables
InitEnv ==
    /\ InitFeed
    /\ env \in [NEXT_PUBLIC_GNEWS_TOKEN : EnvValues, GNEWS_TOKEN : EnvValues]
    /\ IdleVote
    /\ IdleMap
    /\ RestTheme

SpecEnv == InitEnv /\ [][Next]_vars

\* one call of mapGNews for every input of MapInputs
InitMapper == InitFeed /\ NoEnv /\ IdleVote /\ InitMap /\ RestTheme

NextMap == Map

SpecMap == InitMapper /\ [][NextMap]_vars

\* the theme from the first render on, for every content of the storage slot
InitTheme == InitFeed /\ NoEnv /\ IdleVote /\ IdleMap /\ InitThemeProvider

NextTheme == MountEffects \/ Rerender \/ Toggle

SpecTheme == InitTheme /\ [][NextTheme]_vars

\* the VoteBars of NumCards cards, with the feed left in its initial state
InitVoteBars == InitFeed /\ NoEnv /\ InitVote /\ IdleMap /\ RestTheme

NextVote == \E c \in Cards : up(c) \/ down(c)

SpecVote == InitVoteBars /\ [][NextVote]_vars

(* -------------------------------- claims ------------------------------- *)

\* the step is the continuation of a load() call
Settled == ev'.op = "settle" /\ loads' # loads

\* the most recent page applied in this session was shorter than PAGE_SIZE
ShortPageApplied ==
    applied # <<>> /\ applied[Len(applied)][2] < PAGE_SIZE

\* C1: when a load that was superseded (its thread or page changed while it
\* was pending) settles, with a result or with a failure, items, hasMore,
\* error and loading are what they were just before.
C1_StaleLoadChangesNothing ==
    [][(Settled /\ ev'.cancelled) =>
          /\ items' = items
          /\ hasMore' = hasMore
          /\ error' = error
          /\ loading' = loading]_vars

\* a superseded load has settled with a result while the newer load is pending
C1_Witness ==
    /\ ev.op = "settle" /\ ev.cancelled /\ ~ev.threw /\ ev.status = 200
    /\ items = <<>> /\ loading /\ error = NoError

\* C2: whenever the selected thread changes to a different value, the list
\* becomes empty, page becomes 1 and hasMore becomes true in that very step,
\* whatever the state before.
C2_ThreadChangeResets ==
    [][thread' # thread =>
          /\ items' = <<>>
          /\ page' = 1
          /\ hasMore' = TRUE]_vars

\* the thread was changed while the page counter was past 1
C2_Witness ==
    /\ ev.op = "setThread" /\ items = <<>> /\ page = 1 /\ hasMore
    /\ \E l \in BagToSet(loads) :
          l.cancelled /\ l.thread = thread /\ l.page > 1

\* C3: when a load that was not superseded fails, error is the failure
\* message (with the status when the response was not ok), loading is false,
\* the list is what it was when the load was started, and page and hasMore
\* keep their values.
C3_FailureKeepsList ==
    [][(Settled /\ ~ev'.cancelled /\ ev'.threw) =>
          /\ error' # NoError
          /\ (ev'.status \notin {0, 200}) =>
                \E k \in 1..Len(error') : error'[k] = ToString(ev'.status)
          /\ loading' = FALSE
          /\ items' = items
          /\ items' = before
          /\ page' = page
          /\ hasMore' = hasMore]_vars

\* the load of the second page failed with status 500
C3_Witness ==
    /\ ev.op = "settle" /\ ~ev.cancelled /\ ev.threw /\ ev.status = 500
    /\ Len(items) = PAGE_SIZE /\ page = 2 /\ ~loading
    /\ error = <<"Network ", "500">>

\* C4: a successful load of N articles that was not superseded appends exactly
\* N items, in the order of the source, after the items already there; no step
\* within a session removes or reorders items, and items of earlier pages
\* precede items of later pages.
C4_AppendInOrder ==
    [][/\ (Settled /\ ~ev'.cancelled /\ ~ev'.threw) =>
            /\ Len(items') = Len(items) + applied'[Len(applied')][2]
            /\ \A k \in 1..applied'[Len(applied')][2] :
                  items'[Len(items) + k].title = GoodArticle(k).title
       /\ thread' = thread =>
            /\ Len(items') >= Len(items)
            /\ SubSeq(items', 1, Len(items)) = items
       /\ \A i, j \in 1..Len(items') :
            i < j => items'[i].id[2] < items'[j].id[2]]_vars

\* a page of 4 was appended after a page of 10
C4_Witness ==
    /\ ev.op = "settle" /\ ~ev.cancelled /\ ~ev.threw
    /\ applied = <<<<1, PAGE_SIZE>>, <<2, 4>>>>
    /\ Len(items) = PAGE_SIZE + 4
    /\ items[PAGE_SIZE + 4].id[2] = PAGE_SIZE + 3

\* C5: hasMore is false if and only if the most recent page applied to the
\* feed session returned fewer than PAGE_SIZE articles.
C5_HasMoreIffShortPage == (~hasMore) <=> ShortPageApplied

\* a full page and then a short one were applied
C5_Witness ==
    /\ ~hasMore /\ Len(applied) = 2
    /\ applied[1][2] = PAGE_SIZE /\ applied[2][2] = PAGE_SIZE - 1

\* C6: page advances within a session only by a Load more click, taken when
\* loading is false and hasMore is true, and by exactly 1; once a short page
\* has been applied no load is pending for the session and none is started
\* until the thread changes.
C6_LoadMoreOnlyWhenShown ==
    [][/\ (page' # page /\ thread' = thread) =>
            (~loading /\ hasMore /\ page' = page + 1)
       /\ (ShortPageApplied /\ thread' = thread) =>
            /\ page' = page
            /\ BagCardinality(loads') <= BagCardinality(loads)
            /\ \A l \in BagToSet(loads') : l.cancelled]_vars

\* 10 items, then 4 items: 14 items and no Load more
C6_Witness ==
    /\ Len(items) = 14 /\ ~hasMore /\ ~loading /\ page = 2
    /\ ~LoadMoreShown

\* C7: the ids of the items of the accumulated list are pairwise distinct.
C7_IdsDistinct ==
    \A i, j \in 1..Len(items) : i # j => items[i].id # items[j].id

\* the list holds the items of pages 1 and 3: the load of page 2 had failed
C7_Witness ==
    /\ Len(items) > PAGE_SIZE
    /\ Len(applied) = 2 /\ applied[1][1] = 1 /\ applied[2][1] = 3

\* C8: the page counter never moves past a page whose articles were not
\* loaded: every page below the counter has been applied in this session.
C8_PageTracksLoadedPages ==
    \A q \in 1..(page - 1) : \E k \in 1..Len(applied) : applied[k][1] = q

\* C9: a load that was not superseded and whose response holds an article
\* with an unparseable url and no source.url ends as a successful load.
C9_MalformedUrlTolerated ==
    (ev.op = "settle" /\ ~ev.cancelled /\ ev.bad) =>
        (~ev.threw /\ error = NoError)

\* C10: every VoteBar click follows the transition table, and changes the
\* direction and the count of the clicked card only.
UpTable == {<<NULL, "up", 1>>, <<"up", NULL, -1>>, <<"down", "up", 2>>}
DownTable == {<<NULL, "down", -1>>, <<"down", NULL, 1>>, <<"up", "down", -2>>}
VoteStep(c) == <<dir[c], dir'[c], votes'[c] - votes[c]>>

C10_VoteTransitions ==
    [][/\ \A c \in Cards : up(c) => VoteStep(c) \in UpTable
       /\ \A c \in Cards : down(c) => VoteStep(c) \in DownTable
       /\ \E c \in Cards :
            /\ VoteStep(c) \in UpTable \cup DownTable
            /\ \A o \in Cards \ {c} : dir'[o] = dir[o] /\ votes'[o] = votes[o]
       /\ initialVotes' = initialVotes]_vars

\* one card switched from down to up, another from up to down
C10_Witness ==
    \E c, o \in Cards :
        /\ dir[c] = "up" /\ votes[c] = initialVotes[c] + 1
        /\ dir[o] = "down" /\ votes[o] = initialVotes[o] - 1

\* the tag fetchGNews gives to the items of the selected thread
CurrentTag == IF thread = NULL THEN "all" ELSE thread

\* some load() call that was not superseded is pending
CurrentLoadPending == \E l \in BagToSet(loads) : ~l.cancelled

\* C15: a thread change triggers exactly one fetch, the one for (page 1, new
\* thread); no fetch is issued for the new thread with the page of the
\* session that ends.
C15_OneFetchPerThreadChange ==
    [][thread' # thread =>
          /\ BagCardinality(loads') = BagCardinality(loads) + 1
          /\ CopiesIn([page |-> 1, thread |-> thread', cancelled |-> FALSE],
                      loads') = 1]_vars

\* C16: every item of the accumulated list carries the tag of the selected
\* thread ("all" when none is selected).
C16_ItemsOfCurrentThread ==
    \A i \in 1..Len(items) : items[i].thread = CurrentTag

\* a result for the thread the user left has settled while the list holds
\* items of the thread selected now
C16_Witness ==
    /\ ev.op = "settle" /\ ev.cancelled /\ ~ev.threw /\ ev.status = 200
    /\ thread # NULL /\ Len(items) = PAGE_SIZE

\* C17: the count of a VoteBar is its initial count plus 1 when the direction
\* is up, minus 1 when it is down, and the initial count when it is none.
C17_CountFollowsDirection ==
    \A c \in Cards :
        votes[c] = initialVotes[c]
                     + (IF dir[c] = "up" THEN 1 ELSE IF dir[c] = "down" THEN -1 ELSE 0)

\* every card has a vote, some up and some down
C17_Witness ==
    /\ \A c \in Cards : dir[c] # NULL
    /\ \E c \in Cards : dir[c] = "up"
    /\ \E c \in Cards : dir[c] = "down"

\* C18: when no load is in flight the list is made of the results of pages
\* 1..k of the session, in order and with no page skipped.
C18_NoPageSkipped ==
    ~CurrentLoadPending => \A k \in 1..Len(applied) : applied[k][1] = k

\* C19: loading is true exactly when a load that was not superseded is
\* pending; and when the user stops acting (and every request is answered),
\* loading becomes false and stays false.
C19_LoadingTracksCurrentLoad ==
    /\ [](loading <=> CurrentLoadPending)
    /\ ([]<><<UserActs>>_vars) \/ <>[](~loading)

\* the last load to settle was a superseded one, and the flag is down
C19_Witness ==
    /\ ev.op = "settle" /\ ev.cancelled
    /\ ~loading /\ loads = EmptyBag /\ thread # NULL

\* the theme two toggles ago
TwoTogglesAgo == themeLog[Len(themeLog) - 1]

\* C11: after two toggles in a row the theme, the stored value and the dark
\* flag of the document root are those of the theme before the two toggles.
C11_DoubleToggleRestores ==
    Len(themeLog) >= 2 =>
        /\ theme = TwoTogglesAgo
        /\ storage = TwoTogglesAgo
        /\ darkClass = (TwoTogglesAgo = "dark")

\* dark was adopted at startup and toggled twice
C11_Witness ==
    /\ Len(themeLog) = 2 /\ stored0 = "dark"
    /\ theme = "dark" /\ storage = "dark" /\ darkClass

\* C12: once startup has settled the theme is the value the slot held when
\* it is exactly "dark" or "light", and light for any other content.
C12_StartupAdoptsValidValue ==
    (themePhase = "ready" /\ themeLog = <<>>) =>
        theme = (IF stored0 \in {"dark", "light"} THEN stored0 ELSE "light")

\* startup has settled on the stored dark
C12_Witness ==
    /\ themePhase = "ready" /\ themeLog = <<>>
    /\ stored0 = "dark" /\ theme = "dark"

\* C13: with neither environment variable set, every fetch attempt fails with
\* the configuration error before fetch() is called, and that message is the
\* feed's error.
C13_NoCredentialFails ==
    (NoEnv /\ ev.op = "settle") =>
        /\ ev.threw /\ ~ev.requested
        /\ ~ev.cancelled => error = <<"Missing GNEWS_TOKEN env var">>

\* the mapGNews call was made with every optional field absent
AllAbsent ==
    /\ mapIn.a.title = ABSENT /\ mapIn.a.url = ABSENT /\ mapIn.a.image = ABSENT
    /\ mapIn.a.sourceUrl = ABSENT /\ mapIn.a.publishedAt = ABSENT

\* C14: mapGNews gives a record without optional fields the defaults, the id
\* <topic>-<idx> and an age of 1 hour; and the hour count of the age is an
\* integer >= 1 for every publishedAt.
C14_DefaultsAndAge ==
    mapOut.state = "returned" =>
        LET it == mapOut.item[1]
        IN  /\ it.age[1] \in {ToString(h) : h \in 1..24}
            /\ it.age[2] = "h ago"
            /\ AllAbsent =>
                  /\ it.title = "Untitled" /\ it.url = "#"
                  /\ it.favicon = <<>> /\ it.thumbnail = NULL
                  /\ it.comments = 0 /\ it.votes = 0
                  /\ it.id = <<mapIn.topic, mapIn.idx>>
                  /\ it.age = <<"1", "h ago">>

\* C20: the storage slot changes value only in a toggle of the user; startup
\* never replaces what the slot holds.
C20_StorageChangesOnlyByToggle ==
    [][storage' # storage => Len(themeLog') = Len(themeLog) + 1]_vars

====
